---- MODULE Spec2Model ----
(***************************************************************************)
(* mongeasy: the persistence protocol of Document (src/mongeasy/document.py)*)
(* over a collection of the backing store.                                  *)
(*                                                                          *)
(* A Document instance is a Python attribute bag (BaseDict keeps every key  *)
(* in self.__dict__): its identity is the entry "_id", its Field Map the    *)
(* other entries.  The collection is the pymongo collection bound to the    *)
(* document class; the store keeps every value it is given unchanged and    *)
(* hands out a fresh identity for every insert.                             *)
(***************************************************************************)
EXTENDS Integers, FiniteSets, Sequences, TLC

\* ------------------------------------------------------------------ bounds
\* the identities the store hands out: 1 .. MaxId
MaxId == 2

\* ------------------------------------------------------------- value space
\* Field names and field values.  The code only ever tests a value for
\* equality with another one, so two values show every case.
Fields == {"x", "y"}
Values == {"a", "b"}
Ids == 1..MaxId
\* the variables of the caller that hold a Document instance
Docs == {"A", "B"}

\* Python's None as the value of _id (identities are 1, 2, ...)
Null == 0
\* a key that is not in a dict
Absent == "absent"

\* The order in which has_changed() walks __dict__, and _validate() the
\* schema: the order in which the keys were put in.
FieldOrder == <<"x", "y">>

FieldMaps == [Fields -> Values \cup {Absent}]
EmptyMap == [f \in Fields |-> Absent]
Keys(m) == {f \in Fields : m[f] # Absent}

\* store  : the collection, identity -> record
\* nextId : the next identity the store assigns
\* doc    : the Document instance each variable of the caller holds
\* run    : where a save() that is under way stands (SpecConc only)
\* last   : the operation that ran last: its outcome and what it wrote
\* schema : the schema of the document class (create_document_class)
VARIABLES store, nextId, doc, run, last, schema

vars == <<store, nextId, doc, run, last, schema>>

\* ------------------------------------------------------- the backing store
\* find_one's None: no record under the identity
NoRecord == [there |-> FALSE, f |-> EmptyMap]
Record(m) == [there |-> TRUE, f |-> m]

Records(st) == {i \in Ids : st[i].there}

\* collection.count_documents({})
document_count(st) == Cardinality(Records(st))

\* collection.find_one({'_id': i}, {key: 1}) and collection.find_one({'_id': i})
find_one(st, i) == IF i \in Ids THEN st[i] ELSE NoRecord

\* collection.insert_one(fields): the record is stored under a fresh identity
insert_one(st, i, m) == [st EXCEPT ![i] = Record(m)]

\* collection.update_one({'_id': i}, {'$set': ch}): matched_count
matched_count(st, i) == IF find_one(st, i).there THEN 1 ELSE 0

\* update_one with upsert=True: a record is made when none matches
update_one_upsert(st, i, ch) ==
    IF i \notin Ids THEN st
    ELSE IF ~st[i].there THEN [st EXCEPT ![i] = Record(ch)]
    ELSE [st EXCEPT ![i].f = [f \in Fields |-> IF ch[f] # Absent THEN ch[f] ELSE @[f]]]

\* update_one that matches and writes nothing
update_one_noop(st, i, ch) == st

\* update_one that replaces the record by the given fields instead of
\* setting them in it
update_one_replace(st, i, ch) ==
    IF matched_count(st, i) = 0 THEN st ELSE [st EXCEPT ![i].f = ch]

\* collection.update_one({'_id': i}, {'$set': ch}): the store afterwards
update_one(st, i, ch) ==
    IF matched_count(st, i) = 0 THEN st
    ELSE [st EXCEPT ![i].f = [f \in Fields |-> IF ch[f] # Absent THEN ch[f] ELSE @[f]]]

\* collection.update_one({'_id': i}, {'$unset': {f: ""}}): the store afterwards
unset_one(st, i, f) ==
    IF matched_count(st, i) = 0 THEN st ELSE [st EXCEPT ![i].f[f] = Absent]

\* A query of Document.delete(**kwargs) / find(**kwargs): no criteria, or one
\* equality constraint on a field or on the identity.
NoCriteria == [kind |-> "all"]
Queries ==
    {NoCriteria}
    \cup {[kind |-> "id", id |-> i] : i \in Ids}
    \cup {[kind |-> "field", field |-> f, value |-> v] : f \in Fields, v \in Values}

Matches(st, i, q) ==
    /\ st[i].there
    /\ CASE q.kind = "all" -> TRUE
         [] q.kind = "id" -> q.id = i
         [] q.kind = "field" -> st[i].f[q.field] = q.value

\* collection.delete_many(query)
delete_many(st, q) == [i \in Ids |-> IF Matches(st, i, q) THEN NoRecord ELSE st[i]]

\* ------------------------------------------------------------ the Document
\* Document(**kwargs) with no '_id' among the keys
NewDocument(m) == [id |-> Null, f |-> m]

\* Document(record) for a record fetched from the collection
LoadedDocument(i, m) == [id |-> i, f |-> m]

\* the loop's test without the comparison of the two values
field_changed_nocompare(dc, st, f) ==
    LET result == find_one(st, dc.id) IN
    /\ dc.f[f] # Absent
    /\ result.there
    /\ result.f[f] # Absent

\* has_changed(), one turn of its loop: key f of __dict__ is read back from
\* the store and compared with the value in memory
field_changed(dc, st, f) ==
    LET result == find_one(st, dc.id) IN
    /\ dc.f[f] # Absent
    /\ result.there
    /\ result.f[f] # Absent
    /\ result.f[f] # dc.f[f]

\* has_changed() that reports every field of a Document with an identity
has_changed_all(dc, st) == IF dc.id = Null THEN EmptyMap ELSE dc.f

\* has_changed(): the changed fields with their in-memory values
\* (Absent for every field that is not in the result)
has_changed(dc, st) ==
    IF dc.id = Null THEN EmptyMap
    ELSE [f \in Fields |-> IF field_changed(dc, st, f) THEN dc.f[f] ELSE Absent]

\* is_saved()
is_saved(dc, st) == has_changed(dc, st) = EmptyMap

\* save() that does not keep the identity of the inserted record
inserted_id_dropped(n) == Null

\* save(), the insert of a new document: the identity it gets
inserted_id(n) == n

\* reload(): the attribute bag after every fetched key is assigned
reloaded(m, db_doc) ==
    [f \in Fields |-> IF db_doc.f[f] # Absent THEN db_doc.f[f] ELSE m[f]]

\* ---------------------------------------------------------------- the schema
\* Python's None as the value of a field, and what isinstance tells apart
NoneValue == "None"
TypeOf(v) == IF v = "a" THEN "str" ELSE "int"
Types == {"str", "int"}

\* The descriptor of one field: {'type': t, 'required': r, 'validator': p}.
\* A validator is the set of the values (None among them) it returns True for.
Undeclared == [declared |-> FALSE, type |-> "str", required |-> FALSE,
               hasValidator |-> FALSE, accepts |-> {}]
Descriptors ==
    {Undeclared}
    \cup [declared : {TRUE}, type : Types, required : BOOLEAN,
          hasValidator : {FALSE}, accepts : {{}}]
    \cup [declared : {TRUE}, type : Types, required : BOOLEAN,
          hasValidator : {TRUE}, accepts : SUBSET (Values \cup {NoneValue})]

\* create_document_class(name, schema=None): no validate method, schema None
NoSchema == [on |-> FALSE, fields |-> [f \in Fields |-> Undeclared]]
Schemas == [on : {TRUE}, fields : [Fields -> Descriptors]]

\* the attribute bags a caller can build when fields may hold None
SchemaMaps == [Fields -> Values \cup {NoneValue, Absent}]

\* self.__dict__.get(field_name)
dict_get(m, f) == IF m[f] = Absent THEN NoneValue ELSE m[f]

\* _validate(), one turn of its first loop: what it raises for field f
field_error(sc, m, f) ==
    LET field_schema == sc.fields[f]
        field_value == dict_get(m, f)
    IN IF field_schema.hasValidator /\ field_value \notin field_schema.accepts
       THEN "ValueError"
       ELSE IF field_schema.required /\ field_value = NoneValue
       THEN "ValueError"
       ELSE IF field_value # NoneValue /\ TypeOf(field_value) # field_schema.type
       THEN "TypeError"
       ELSE "ok"

\* _validate(): "ok", or the error of the first field of the schema that has
\* one, or MongoFieldError for a key of __dict__ the schema does not have
validate(sc, m) ==
    LET bad == {k \in 1..Len(FieldOrder) :
                  /\ sc.fields[FieldOrder[k]].declared
                  /\ field_error(sc, m, FieldOrder[k]) # "ok"}
        first == CHOOSE k \in bad : \A j \in bad : k <= j
    IN IF bad # {} THEN field_error(sc, m, FieldOrder[first])
       ELSE IF \E f \in Keys(m) : ~sc.fields[f].declared THEN "MongoFieldError"
       ELSE "ok"

\* save() that never calls validate()
save_validation_skipped(sc, m) == "ok"

\* save(): if self.schema is not None: self.validate()
save_validation(sc, m) == IF sc.on THEN validate(sc, m) ELSE "ok"

\* ------------------------------------------------------- the last operation
NoOp == [op |-> "init", d |-> "A", res |-> "ok", wrote |-> "none",
         changed |-> {}, repeat |-> FALSE, tick |-> FALSE]

Done(op, d, res, wrote, changed) ==
    [op |-> op, d |-> d, res |-> res, wrote |-> wrote, changed |-> changed,
     repeat |-> (op = "save" /\ last.op = "save" /\ last.d = d),
     tick |-> ~last.tick]

Idle == [pc |-> "idle", k |-> 1, changed |-> EmptyMap, res |-> "ok"]

Init ==
    /\ store = [i \in Ids |-> NoRecord]
    /\ nextId = 1
    /\ doc = [d \in Docs |-> NewDocument(EmptyMap)]
    /\ run = [d \in Docs |-> Idle]
    /\ last = NoOp
    /\ schema = NoSchema

\* ------------------------------------------------- operations, run to the end
\* d = Document(**m)
Construct(d, m) ==
    /\ doc' = [doc EXCEPT ![d] = NewDocument(m)]
    /\ last' = Done("construct", d, "ok", "none", {})
    /\ UNCHANGED <<store, nextId, run, schema>>

\* d = Document.find(_id=i).first_or_none(), a record being there
Find(d, i) ==
    /\ store[i].there
    /\ doc' = [doc EXCEPT ![d] = LoadedDocument(i, store[i].f)]
    /\ last' = Done("find", d, "ok", "none", {})
    /\ UNCHANGED <<store, nextId, run, schema>>

\* d[f] = v
SetItem(d, f, v) ==
    /\ doc' = [doc EXCEPT ![d].f[f] = v]
    /\ last' = Done("set", d, "ok", "none", {})
    /\ UNCHANGED <<store, nextId, run, schema>>

\* del d[f]
DelItem(d, f) ==
    /\ doc[d].f[f] # Absent
    /\ doc' = [doc EXCEPT ![d].f[f] = Absent]
    /\ last' = Done("del", d, "ok", "none", {})
    /\ UNCHANGED <<store, nextId, run, schema>>

\* d.save()
Save(d) ==
    /\ IF save_validation(schema, doc[d].f) # "ok"
       THEN /\ last' = Done("save", d, save_validation(schema, doc[d].f), "none", {})
            /\ UNCHANGED <<store, nextId, doc>>
       ELSE IF doc[d].id = Null
       THEN /\ nextId <= MaxId
            /\ store' = insert_one(store, nextId, doc[d].f)
            /\ doc' = [doc EXCEPT ![d].id = inserted_id(nextId)]
            /\ nextId' = nextId + 1
            /\ last' = Done("save", d, "ok", "insert", Keys(doc[d].f))
       ELSE LET changed_fields == has_changed(doc[d], store) IN
            IF changed_fields = EmptyMap
            THEN /\ last' = Done("save", d, "ok", "none", {})
                 /\ UNCHANGED <<store, nextId, doc>>
            ELSE /\ store' = update_one(store, doc[d].id, changed_fields)
                 /\ last' = Done("save", d,
                                 IF matched_count(store, doc[d].id) = 0
                                 THEN "ValueError" ELSE "ok",
                                 "update", Keys(changed_fields))
                 /\ UNCHANGED <<nextId, doc>>
    /\ UNCHANGED <<run, schema>>

\* the two errors of reload()
CannotReloadUnsaved == "ValueError: Cannot reload unsaved document"
DoesNotExist == "ValueError: Document does not exist"

\* reload() without the test of the identity
reload_error_unchecked(dc, st) ==
    IF ~find_one(st, dc.id).there THEN DoesNotExist ELSE "ok"

\* reload(): what it raises before it touches the instance
reload_error(dc, st) ==
    IF dc.id = Null THEN CannotReloadUnsaved
    ELSE IF ~find_one(st, dc.id).there THEN DoesNotExist
    ELSE "ok"

\* d.reload()
Reload(d) ==
    /\ IF reload_error(doc[d], store) # "ok"
       THEN /\ last' = Done("reload", d, reload_error(doc[d], store), "none", {})
            /\ UNCHANGED <<store, nextId, doc>>
       ELSE LET db_doc == find_one(store, doc[d].id) IN
            /\ doc' = [doc EXCEPT ![d].f = reloaded(@, db_doc)]
            /\ last' = Done("reload", d, "ok", "none", {})
            /\ UNCHANGED <<store, nextId>>
    /\ UNCHANGED <<run, schema>>

\* delete_field() that also drops the key from the instance
DeleteField_popping(d, f, fails) ==
    /\ store' = IF fails THEN store ELSE unset_one(store, doc[d].id, f)
    /\ doc' = [doc EXCEPT ![d].f[f] = Absent]
    /\ last' = Done("delete_field", d, "ok", IF fails THEN "failed" ELSE "unset", {f})
    /\ UNCHANGED <<nextId, run, schema>>

\* d.delete_field(f); fails: the call of the store raises, which is logged
DeleteField(d, f, fails) ==
    /\ store' = IF fails THEN store ELSE unset_one(store, doc[d].id, f)
    /\ last' = Done("delete_field", d, "ok", IF fails THEN "failed" ELSE "unset", {f})
    /\ UNCHANGED <<nextId, doc, run, schema>>

\* Document.delete(**kwargs), the classmethod, with criteria
DeleteWhere(q) ==
    /\ store' = delete_many(store, q)
    /\ last' = Done("delete_where", "A", "ok", "delete", {})
    /\ UNCHANGED <<nextId, doc, run, schema>>

\* d.delete(): the criteria the call on an instance ends up with.  The class
\* body defines delete twice, and the later definition, the classmethod, is
\* the one the name is bound to: the call passes no keyword arguments.
instance_delete_query(dc) == NoCriteria

\* delete() that resets the identity of the instance
Delete_forgetting(d) ==
    /\ store' = delete_many(store, instance_delete_query(doc[d]))
    /\ doc' = [doc EXCEPT ![d].id = Null]
    /\ last' = Done("delete", d, "ok", "delete", {})
    /\ UNCHANGED <<nextId, run, schema>>

\* d.delete()
Delete(d) ==
    /\ store' = delete_many(store, instance_delete_query(doc[d]))
    /\ last' = Done("delete", d, "ok", "delete", {})
    /\ UNCHANGED <<nextId, doc, run, schema>>

\* One caller holding one Document variable; every operation runs to its end
\* before the next one starts.
Callers == {"A"}

Next ==
    \/ \E d \in Callers, m \in FieldMaps : Construct(d, m)
    \/ \E d \in Callers, i \in Ids : Find(d, i)
    \/ \E d \in Callers, f \in Fields, v \in Values : SetItem(d, f, v)
    \/ \E d \in Callers, f \in Fields : DelItem(d, f)
    \/ \E d \in Callers : Save(d)
    \/ \E d \in Callers : Reload(d)
    \/ \E d \in Callers : Delete(d)
    \/ \E q \in Queries : DeleteWhere(q)

Spec == Init /\ [][Next]_vars

\* ------------------------------------------------ delete_field() among saves
\* The caller builds Documents, assigns fields, saves, deletes, and unsets
\* fields of the stored record with delete_field().
NextField ==
    \/ \E d \in Callers, m \in FieldMaps : Construct(d, m)
    \/ \E d \in Callers, f \in Fields, v \in Values : SetItem(d, f, v)
    \/ \E d \in Callers : Save(d)
    \/ \E d \in Callers : Delete(d)
    \/ \E d \in Callers, f \in Fields, fails \in BOOLEAN : DeleteField(d, f, fails)

SpecField == Init /\ [][NextField]_vars

\* ------------------------------------------------- a class with a schema
\* The schemas without validators: each field undeclared, or declared with a
\* type, required or not.
PlainSchemas == {sc \in Schemas : \A f \in Fields : ~sc.fields[f].hasValidator}

\* create_document_class(name, schema=sc); nothing stored, nothing built yet
InitSchema ==
    /\ store = [i \in Ids |-> NoRecord]
    /\ nextId = 1
    /\ doc = [d \in Docs |-> NewDocument(EmptyMap)]
    /\ run = [d \in Docs |-> Idle]
    /\ last = NoOp
    /\ schema \in PlainSchemas

\* The caller builds a Document, assigns and removes fields, and saves.
NextSchema ==
    \/ \E d \in Callers, m \in FieldMaps : doc[d].id = Null /\ Construct(d, m)
    \/ \E d \in Callers, f \in Fields, v \in Values : SetItem(d, f, v)
    \/ \E d \in Callers, f \in Fields : DelItem(d, f)
    \/ \E d \in Callers : Save(d)

SpecSchema == InitSchema /\ [][NextSchema]_vars

\* --------------------------------------------------- validate() on its own
\* d.validate()
Validate(d) ==
    /\ schema.on
    /\ last' = Done("validate", d, validate(schema, doc[d].f), "none", {})
    /\ UNCHANGED <<store, nextId, doc, run, schema>>

\* any schema, and a Document built from any mapping without identity
InitValidate ==
    /\ store = [i \in Ids |-> NoRecord]
    /\ nextId = 1
    /\ \E m \in SchemaMaps :
          doc = [d \in Docs |-> IF d \in Callers THEN NewDocument(m)
                                ELSE NewDocument(EmptyMap)]
    /\ run = [d \in Docs |-> Idle]
    /\ last = NoOp
    /\ schema \in Schemas

NextValidate == \E d \in Callers : Validate(d)

SpecValidate == InitValidate /\ [][NextValidate]_vars

\* ------------------------------- get_by_id() and Document(mapping with _id)
\* A string that bson.ObjectId() refuses (bson.errors.InvalidId)
Malformed == -1

\* A well-formed identity the caller brings along and the store never handed
\* out
Foreign == MaxId + 1

\* What a caller can pass for an identity
IdArgs == Ids \cup {Foreign, Malformed}

\* bson.ObjectId(a) raising InvalidId
InvalidId(a) == a = Malformed

\* d = Document.get_by_id(a): InvalidId is the one exception caught;
\* Document(None), for find_one finding nothing, raises TypeError
GetById(d, a) ==
    /\ a \in Ids => a < nextId
    /\ IF InvalidId(a)
       THEN /\ last' = Done("get_by_id", d, "None", "none", {})
            /\ doc' = doc
       ELSE IF ~find_one(store, a).there
       THEN /\ last' = Done("get_by_id", d, "TypeError", "none", {})
            /\ doc' = doc
       ELSE /\ last' = Done("get_by_id", d, "ok", "none", {})
            /\ doc' = [doc EXCEPT ![d] = LoadedDocument(a, find_one(store, a).f)]
    /\ UNCHANGED <<store, nextId, run, schema>>

\* d = Document({'_id': a, **m})
ConstructFrom(d, a, m) ==
    /\ a \in Ids => a < nextId
    /\ IF InvalidId(a)
       THEN /\ last' = Done("construct", d, "ValueError", "none", {})
            /\ doc' = doc
       ELSE /\ last' = Done("construct", d, "ok", "none", {})
            /\ doc' = [doc EXCEPT ![d] = LoadedDocument(a, m)]
    /\ UNCHANGED <<store, nextId, run, schema>>

\* The caller builds Documents, with and without an identity, assigns fields,
\* saves, reloads, deletes and looks records up by identity.
NextLookup ==
    \/ \E d \in Callers, m \in FieldMaps : Construct(d, m)
    \/ \E d \in Callers, f \in Fields, v \in Values : SetItem(d, f, v)
    \/ \E d \in Callers : Save(d)
    \/ \E d \in Callers : Reload(d)
    \/ \E d \in Callers : Delete(d)
    \/ \E d \in Callers, a \in IdArgs : GetById(d, a)
    \/ \E d \in Callers, a \in IdArgs, m \in FieldMaps : ConstructFrom(d, a, m)

SpecLookup == Init /\ [][NextLookup]_vars

\* ------------------------------------------------------------ insert_many()
MaxItems == 2

\* An item of the list: a mapping, with or without the key '_id'
Items == [id : {Null, Foreign, Malformed}, f : FieldMaps]
ItemLists == UNION {[1..n -> Items] : n \in 1..MaxItems}

\* The loop of insert_many from item k on, over the collection st with n the
\* next identity: cls(item).save() per item, pymongo.errors.PyMongoError the
\* one exception caught.  fails[k] says that the store refuses the write of
\* item k with a PyMongoError.
RECURSIVE insert_many_from(_, _, _, _, _, _)
insert_many_from(items, fails, k, st, n, sc) ==
    IF k > Len(items)
    THEN [store |-> st, nextId |-> n, res |-> "ok"]
    ELSE LET item == items[k]
             self == LoadedDocument(item.id, item.f)
         IN IF InvalidId(item.id)
            THEN [store |-> st, nextId |-> n, res |-> "ValueError"]
            ELSE IF save_validation(sc, item.f) # "ok"
            THEN [store |-> st, nextId |-> n, res |-> save_validation(sc, item.f)]
            ELSE IF item.id = Null
            THEN IF fails[k]
                 THEN insert_many_from(items, fails, k + 1, st, n, sc)
                 ELSE insert_many_from(items, fails, k + 1,
                                       insert_one(st, n, item.f), n + 1, sc)
            ELSE IF has_changed(self, st) = EmptyMap \/ fails[k]
            THEN insert_many_from(items, fails, k + 1, st, n, sc)
            ELSE IF matched_count(st, item.id) = 0
            THEN [store |-> st, nextId |-> n, res |-> "ValueError"]
            ELSE insert_many_from(items, fails, k + 1,
                                  update_one(st, item.id, has_changed(self, st)), n, sc)

\* Document.insert_many(items)
InsertMany(items, fails) ==
    /\ nextId + Len(items) <= MaxId + 1
    /\ LET out == insert_many_from(items, fails, 1, store, nextId, schema)
       IN /\ store' = out.store
          /\ nextId' = out.nextId
          /\ last' = Done("insert_many", "A", out.res,
                          IF out.store = store THEN "none" ELSE "insert", {})
    /\ UNCHANGED <<doc, run, schema>>

InitMany ==
    /\ store = [i \in Ids |-> NoRecord]
    /\ nextId = 1
    /\ doc = [d \in Docs |-> NewDocument(EmptyMap)]
    /\ run = [d \in Docs |-> Idle]
    /\ last = NoOp
    /\ schema \in PlainSchemas \cup {NoSchema}

NextMany ==
    \E items \in ItemLists : \E fails \in [1..Len(items) -> BOOLEAN] :
        InsertMany(items, fails)

SpecMany == InitMany /\ [][NextMany]_vars

\* ----------------------------------------------------------- the ResultList
MaxLen == 3
MaxElem == 2

\* The elements of a list, and the lists
Elems == 0..MaxElem
Lists == UNION {[1..n -> Elems] : n \in 0..MaxLen}

\* A Python value that is None or a number; initial is None when the caller
\* passes no initial value (the parameter's default)
PyNone == [isNone |-> TRUE, v |-> 0]
PyInt(n) == [isNone |-> FALSE, v |-> n]
Initials == {PyNone} \cup {PyInt(n) : n \in Elems}

\* The reducers a caller passes: functions of the accumulator and an element
Reducers == {"add", "sub", "elem"}
Apply(fn, acc, e) ==
    IF fn = "add" THEN acc + e ELSE IF fn = "sub" THEN acc - e ELSE e

\* functools.reduce(fn, xs, acc): fn over the elements from the first on
RECURSIVE functools_reduce(_, _, _)
functools_reduce(fn, xs, acc) ==
    IF xs = <<>> THEN acc
    ELSE functools_reduce(fn, Tail(xs), Apply(fn, acc, Head(xs)))

Raised == [raised |-> TRUE, v |-> 0]
Returned(n) == [raised |-> FALSE, v |-> n]

\* reduce() that tests the truth of initial instead of "is not None"
reduce_truthy(xs, fn, initial) ==
    IF ~initial.isNone /\ initial.v # 0
    THEN Returned(functools_reduce(fn, xs, initial.v))
    ELSE IF xs = <<>> THEN Raised
    ELSE Returned(functools_reduce(fn, Tail(xs), Head(xs)))

\* ResultList.reduce(reducer, initial=None); functools.reduce without an
\* initial value starts from the first element and raises TypeError on an
\* empty list
reduce(xs, fn, initial) ==
    IF ~initial.isNone
    THEN Returned(functools_reduce(fn, xs, initial.v))
    ELSE IF xs = <<>> THEN Raised
    ELSE Returned(functools_reduce(fn, Tail(xs), Head(xs)))

\* The key functions a caller passes
GroupKeys == {"p", "q"}
KeyFuncs == [Elems -> GroupKeys]

\* The dict under construction: its keys in insertion order, each with its
\* list
HasKey(groups, key) == \E j \in 1..Len(groups) : groups[j].key = key
IndexOf(groups, key) == CHOOSE j \in 1..Len(groups) : groups[j].key = key

\* group_by() that puts a new key in front of the keys it has
group_by_step_front(groups, key, elem) ==
    IF HasKey(groups, key)
    THEN [groups EXCEPT ![IndexOf(groups, key)].members = Append(@, elem)]
    ELSE <<[key |-> key, members |-> <<elem>>]>> \o groups

\* group_by(), one turn of its loop
group_by_step(groups, key, elem) ==
    IF HasKey(groups, key)
    THEN [groups EXCEPT ![IndexOf(groups, key)].members = Append(@, elem)]
    ELSE Append(groups, [key |-> key, members |-> <<elem>>])

\* ResultList.group_by(keyfunc): the loop from element k on
RECURSIVE group_by_from(_, _, _, _)
group_by_from(xs, keyfunc, k, groups) ==
    IF k > Len(xs) THEN groups
    ELSE group_by_from(xs, keyfunc, k + 1,
                       group_by_step(groups, keyfunc[xs[k]], xs[k]))

group_by(xs, keyfunc) == group_by_from(xs, keyfunc, 1, <<>>)

\* The calls a caller can make on a list
ReduceCalls == [op : {"call reduce"}, self : Lists, fn : Reducers, initial : Initials]
GroupByCalls == [op : {"call group_by"}, self : Lists, keyfunc : KeyFuncs]

\* out = self.reduce(fn, initial)
Reduce ==
    /\ last.op = "call reduce"
    /\ last' = [op |-> "reduce", self |-> last.self, fn |-> last.fn,
                initial |-> last.initial,
                out |-> reduce(last.self, last.fn, last.initial)]
    /\ UNCHANGED <<store, nextId, doc, run, schema>>

\* out = self.group_by(keyfunc); arg is the list before the call, self the
\* list after it
GroupBy ==
    /\ last.op = "call group_by"
    /\ last' = [op |-> "group_by", arg |-> last.self, self |-> last.self,
                keyfunc |-> last.keyfunc,
                out |-> group_by(last.self, last.keyfunc)]
    /\ UNCHANGED <<store, nextId, doc, run, schema>>

InitList ==
    /\ store = [i \in Ids |-> NoRecord]
    /\ nextId = 1
    /\ doc = [d \in Docs |-> NewDocument(EmptyMap)]
    /\ run = [d \in Docs |-> Idle]
    /\ last \in ReduceCalls \cup GroupByCalls
    /\ schema = NoSchema

NextList == Reduce \/ GroupBy

SpecList == InitList /\ [][NextList]_vars

\* ----------------------------------------------------------------- init_db()
MaxRetries == 3
MaxDelay == 3

\* Database.client and Database.db before the call: None, or the client and
\* database of an earlier init_db
NoClient == 0
OldClient == 1
\* MongoClient(connection_str) of attempt i (from 0) is a new client
NewClient(i) == i + 2

RECURSIVE Power(_, _)
Power(b, e) == IF e = 0 THEN 1 ELSE b * Power(b, e - 1)

\* init_db(connection_str, database, retries, retry_delay) about to run
InitDbCalls ==
    [op : {"init_db"}, pc : {"for"}, retries : 0..MaxRetries,
     retry_delay : 1..MaxDelay, i : {0}, attempts : {0}, slept : {0},
     sleeps : {0}, local_client : {NoClient},
     client : {NoClient, OldClient}, db : {NoClient, OldClient},
     before : {NoClient, OldClient}, res : {"running"}]

\* for i in range(retries): MongoClient(...); client.server_info()
\* ok: the server answers; otherwise ServerSelectionTimeoutError
Attempt(ok) ==
    /\ last.op = "init_db" /\ last.pc = "for" /\ last.i < last.retries
    /\ last' = IF ok
               THEN [last EXCEPT !.attempts = @ + 1,
                                 !.local_client = NewClient(last.i), !.pc = "assign"]
               ELSE IF last.i = last.retries - 1
               THEN [last EXCEPT !.attempts = @ + 1, !.pc = "done",
                                 !.res = "MongoDBConnectionError"]
               ELSE [last EXCEPT !.attempts = @ + 1, !.pc = "sleep"]
    /\ UNCHANGED <<store, nextId, doc, run, schema>>

\* time.sleep(retry_delay ** i)
Sleep ==
    /\ last.op = "init_db" /\ last.pc = "sleep"
    /\ last' = [last EXCEPT !.slept = @ + Power(last.retry_delay, last.i),
                            !.sleeps = @ + 1, !.i = @ + 1, !.pc = "for"]
    /\ UNCHANGED <<store, nextId, doc, run, schema>>

\* the loop ends without break: range(retries) is exhausted, and client is
\* not bound when Database.db = client[database] reads it
LoopEnd ==
    /\ last.op = "init_db" /\ last.pc = "for" /\ last.i >= last.retries
    /\ last' = [last EXCEPT !.pc = "done", !.res = "UnboundLocalError"]
    /\ UNCHANGED <<store, nextId, doc, run, schema>>

\* Database.db = client[database]; Database.client = client
Assign ==
    /\ last.op = "init_db" /\ last.pc = "assign"
    /\ last' = [last EXCEPT !.db = last.local_client, !.client = last.local_client,
                            !.pc = "done", !.res = "ok"]
    /\ UNCHANGED <<store, nextId, doc, run, schema>>

InitConnect ==
    /\ store = [i \in Ids |-> NoRecord]
    /\ nextId = 1
    /\ doc = [d \in Docs |-> NewDocument(EmptyMap)]
    /\ run = [d \in Docs |-> Idle]
    /\ last \in {c \in InitDbCalls : c.client = c.before /\ c.db = c.before}
    /\ schema = NoSchema

NextConnect ==
    \/ \E ok \in BOOLEAN : Attempt(ok)
    \/ Sleep
    \/ LoopEnd
    \/ Assign

SpecConnect == InitConnect /\ [][NextConnect]_vars

\* --------------------------------------------------- the JSON conversion
MaxDepth == 2
MaxWidth == 2

\* A value of the tree: a leaf (datetime.datetime, bson.ObjectId, a float, a
\* str) or a dict or a list of values; the values of a dict in the order of
\* its keys
Leaf(kind) == [kind |-> kind, items |-> <<>>]
Node(kind, items) == [kind |-> kind, items |-> items]
InputLeaves == {Leaf("datetime"), Leaf("ObjectId"), Leaf("str")}

RECURSIVE Trees(_)
Trees(depth) ==
    IF depth = 0 THEN InputLeaves
    ELSE InputLeaves \cup
         {Node(kind, items) :
            kind \in {"dict", "list"},
            items \in UNION {[1..n -> Trees(depth - 1)] : n \in 0..MaxWidth}}

\* The struct given to _convert_to_json: a dict with one key
Structs == {Node("dict", <<v>>) : v \in Trees(MaxDepth)}

RECURSIVE _convert_dict_to_json(_)
RECURSIVE _convert_list_to_json(_)

\* value.timestamp() and str(value)
timestamp == Leaf("float")
str_of_id == Leaf("str")

\* _convert_list_to_json(struct_list): a list among the elements is left as
\* it is
_convert_list_to_json(struct_list) ==
    Node("list",
         [i \in 1..Len(struct_list.items) |->
            LET value == struct_list.items[i]
            IN IF value.kind = "dict" THEN _convert_dict_to_json(value)
               ELSE IF value.kind = "datetime" THEN timestamp
               ELSE IF value.kind = "ObjectId" THEN str_of_id
               ELSE value])

\* _convert_dict_to_json(struct)
_convert_dict_to_json(struct) ==
    Node("dict",
         [i \in 1..Len(struct.items) |->
            LET value == struct.items[i]
            IN IF value.kind = "dict" THEN _convert_dict_to_json(value)
               ELSE IF value.kind = "list" /\ Len(value.items) > 0
               THEN _convert_list_to_json(value)
               ELSE IF value.kind = "datetime" THEN timestamp
               ELSE IF value.kind = "ObjectId" THEN str_of_id
               ELSE value])

\* _convert_to_json(struct)
_convert_to_json(struct) ==
    Node("dict",
         [i \in 1..Len(struct.items) |->
            LET value == struct.items[i]
            IN IF value.kind = "datetime" THEN timestamp
               ELSE IF value.kind = "ObjectId" THEN str_of_id
               ELSE IF value.kind = "dict" THEN _convert_dict_to_json(value)
               ELSE IF value.kind = "list" /\ Len(value.items) > 0
               THEN _convert_list_to_json(value)
               ELSE value])

\* _convert_to_json(struct): out is struct after the call
ConvertToJson ==
    /\ last.op = "call _convert_to_json"
    /\ last' = [op |-> "_convert_to_json", struct |-> last.struct,
                out |-> _convert_to_json(last.struct)]
    /\ UNCHANGED <<store, nextId, doc, run, schema>>

InitJson ==
    /\ store = [i \in Ids |-> NoRecord]
    /\ nextId = 1
    /\ doc = [d \in Docs |-> NewDocument(EmptyMap)]
    /\ run = [d \in Docs |-> Idle]
    /\ last \in [op : {"call _convert_to_json"}, struct : Structs]
    /\ schema = NoSchema

NextJson == ConvertToJson

SpecJson == InitJson /\ [][NextJson]_vars

\* ------------------------------------- has_changed() when a read can fail
\* What a find_one of has_changed() does: it answers, or raises one of the
\* two errors has_changed() catches, or another error of the driver
Caught == {"OperationFailure", "ServerSelectionTimeoutError"}
ReadOutcomes == {"ok", "NetworkTimeout"} \cup Caught
Reads == [Fields -> ReadOutcomes]

\* The turns of the loop of has_changed() whose find_one does not answer:
\* one find_one per key of __dict__ other than '_id'
FailedReads(dc, reads) ==
    {k \in 1..Len(FieldOrder) :
        dc.f[FieldOrder[k]] # Absent /\ reads[FieldOrder[k]] # "ok"}
FirstFailedRead(dc, reads) ==
    reads[FieldOrder[CHOOSE k \in FailedReads(dc, reads) :
                        \A j \in FailedReads(dc, reads) : k <= j]]

\* has_changed() with the outcome of each find_one given: the first read
\* that fails ends the loop, with {} when the error is caught
has_changed_reading(dc, st, reads) ==
    IF dc.id = Null \/ FailedReads(dc, reads) = {}
    THEN [raised |-> "none", changed |-> has_changed(dc, st)]
    ELSE IF FirstFailedRead(dc, reads) \in Caught
    THEN [raised |-> "none", changed |-> EmptyMap]
    ELSE [raised |-> FirstFailedRead(dc, reads), changed |-> EmptyMap]

\* Whether a find_one of the call failed
ReadFailed(dc, reads) == dc.id # Null /\ FailedReads(dc, reads) # {}

\* d.save(), the reads of has_changed() having the outcomes given
SaveReading(d, reads) ==
    /\ IF save_validation(schema, doc[d].f) # "ok"
       THEN /\ last' = Done("save", d, save_validation(schema, doc[d].f), "none", {})
                         @@ [failed |-> FALSE]
            /\ UNCHANGED <<store, nextId, doc>>
       ELSE IF doc[d].id = Null
       THEN /\ nextId <= MaxId
            /\ store' = insert_one(store, nextId, doc[d].f)
            /\ doc' = [doc EXCEPT ![d].id = inserted_id(nextId)]
            /\ nextId' = nextId + 1
            /\ last' = Done("save", d, "ok", "insert", Keys(doc[d].f))
                         @@ [failed |-> FALSE]
       ELSE LET hc == has_changed_reading(doc[d], store, reads) IN
            IF hc.raised # "none"
            THEN /\ last' = Done("save", d, hc.raised, "none", {})
                              @@ [failed |-> TRUE]
                 /\ UNCHANGED <<store, nextId, doc>>
            ELSE IF hc.changed = EmptyMap
            THEN /\ last' = Done("save", d, "ok", "none", {})
                              @@ [failed |-> ReadFailed(doc[d], reads)]
                 /\ UNCHANGED <<store, nextId, doc>>
            ELSE /\ store' = update_one(store, doc[d].id, hc.changed)
                 /\ last' = Done("save", d,
                                 IF matched_count(store, doc[d].id) = 0
                                 THEN "ValueError" ELSE "ok",
                                 "update", Keys(hc.changed))
                              @@ [failed |-> FALSE]
                 /\ UNCHANGED <<nextId, doc>>
    /\ UNCHANGED <<run, schema>>

\* d.is_saved(), the reads of has_changed() having the outcomes given
IsSavedReading(d, reads) ==
    /\ LET hc == has_changed_reading(doc[d], store, reads) IN
       last' = Done("is_saved", d,
                    IF hc.raised # "none" THEN hc.raised
                    ELSE IF hc.changed = EmptyMap THEN "True" ELSE "False",
                    "none", {})
                 @@ [failed |-> ReadFailed(doc[d], reads)]
    /\ UNCHANGED <<store, nextId, doc, run, schema>>

NextReads ==
    \/ \E d \in Callers, m \in FieldMaps : Construct(d, m)
    \/ \E d \in Callers, f \in Fields, v \in Values : SetItem(d, f, v)
    \/ \E d \in Callers, reads \in Reads : SaveReading(d, reads)
    \/ \E d \in Callers, reads \in Reads : IsSavedReading(d, reads)

SpecReads == Init /\ [][NextReads]_vars

\* ------------------------------------------- save() when the insert can fail
\* The identity of a Document whose attribute _id was deleted (del self._id)
Unset == -2

\* What insert_one does: it stores the record, or raises a PyMongoError
\* before the driver has put a fresh '_id' into the mapping it was given
\* (self.__dict__), or raises one after that
InsertOutcomes == {"ok", "raises before _id", "raises after _id"}

\* self._id after an insert_one that raised
id_after_failed_insert(outcome) ==
    IF outcome = "raises before _id" THEN Unset ELSE Foreign

\* d.save(), insert_one having the outcome given
SaveInserting(d, outcome) ==
    /\ IF save_validation(schema, doc[d].f) # "ok"
       THEN /\ last' = Done("save", d, save_validation(schema, doc[d].f), "none", {})
            /\ UNCHANGED <<store, nextId, doc>>
       ELSE IF doc[d].id = Unset
       THEN /\ last' = Done("save", d, "AttributeError", "none", {})
            /\ UNCHANGED <<store, nextId, doc>>
       ELSE IF doc[d].id = Null /\ outcome = "ok"
       THEN /\ nextId <= MaxId
            /\ store' = insert_one(store, nextId, doc[d].f)
            /\ doc' = [doc EXCEPT ![d].id = inserted_id(nextId)]
            /\ nextId' = nextId + 1
            /\ last' = Done("save", d, "ok", "insert", Keys(doc[d].f))
       ELSE IF doc[d].id = Null
       THEN /\ doc' = [doc EXCEPT ![d].id = id_after_failed_insert(outcome)]
            /\ last' = Done("save", d, "PyMongoError", "none", {})
            /\ UNCHANGED <<store, nextId>>
       ELSE LET changed_fields == has_changed(doc[d], store) IN
            IF changed_fields = EmptyMap
            THEN /\ last' = Done("save", d, "ok", "none", {})
                 /\ UNCHANGED <<store, nextId, doc>>
            ELSE /\ store' = update_one(store, doc[d].id, changed_fields)
                 /\ last' = Done("save", d,
                                 IF matched_count(store, doc[d].id) = 0
                                 THEN "ValueError" ELSE "ok",
                                 "update", Keys(changed_fields))
                 /\ UNCHANGED <<nextId, doc>>
    /\ UNCHANGED <<run, schema>>

NextInsert ==
    \/ \E d \in Callers, m \in FieldMaps : Construct(d, m)
    \/ \E d \in Callers, f \in Fields, v \in Values : SetItem(d, f, v)
    \/ \E d \in Callers, outcome \in InsertOutcomes : SaveInserting(d, outcome)

SpecInsert == Init /\ [][NextInsert]_vars

\* --------------------------------------- save() of two holders, step by step
Flip(v) == CHOOSE w \in Values : w # v

\* A and B were both loaded from the record with identity 1; then A assigned
\* a new value to x only and B a new value to y only.
InitConc ==
    \E v \in Values, w \in Values :
        /\ store = [i \in Ids |-> IF i = 1
                                  THEN Record([f \in Fields |-> IF f = "x" THEN v ELSE w])
                                  ELSE NoRecord]
        /\ nextId = 2
        /\ doc = [d \in Docs |->
                    LoadedDocument(1, [f \in Fields |->
                        IF f = "x" THEN (IF d = "A" THEN Flip(v) ELSE v)
                                   ELSE (IF d = "B" THEN Flip(w) ELSE w)])]
        /\ run = [d \in Docs |-> Idle]
        /\ last = NoOp
        /\ schema = NoSchema

\* save() up to the call of has_changed(): the identity is not None
SaveBegin(d) ==
    /\ run[d].pc = "idle"
    /\ doc[d].id # Null
    /\ run' = [run EXCEPT ![d] = [pc |-> "diff", k |-> 1, changed |-> EmptyMap, res |-> "ok"]]
    /\ UNCHANGED <<store, nextId, doc, last, schema>>

\* has_changed(): one find_one of the loop; after the last one save() either
\* returns (nothing changed) or goes on to update_one
DiffRead(d) ==
    /\ run[d].pc = "diff"
    /\ LET f == FieldOrder[run[d].k]
           ch == IF field_changed(doc[d], store, f)
                 THEN [run[d].changed EXCEPT ![f] = doc[d].f[f]]
                 ELSE run[d].changed
           more == run[d].k < Len(FieldOrder)
       IN run' = [run EXCEPT ![d] =
                    [pc |-> IF more THEN "diff"
                            ELSE IF ch = EmptyMap THEN "done" ELSE "update",
                     k |-> IF more THEN run[d].k + 1 ELSE run[d].k,
                     changed |-> ch, res |-> "ok"]]
    /\ UNCHANGED <<store, nextId, doc, last, schema>>

\* save(): update_one and the test of matched_count
SaveUpdate(d) ==
    /\ run[d].pc = "update"
    /\ store' = update_one(store, doc[d].id, run[d].changed)
    /\ run' = [run EXCEPT ![d].pc = "done",
                          ![d].res = IF matched_count(store, doc[d].id) = 0
                                     THEN "ValueError" ELSE "ok"]
    /\ last' = Done("save", d, run'[d].res, "update", Keys(run[d].changed))
    /\ UNCHANGED <<nextId, doc, schema>>

\* Document.delete(_id=i) by some other part of the program
DeleteRecord(i) ==
    /\ store[i].there
    /\ store' = delete_many(store, [kind |-> "id", id |-> i])
    /\ last' = Done("delete_where", "A", "ok", "delete", {})
    /\ UNCHANGED <<nextId, doc, run, schema>>

NextConc ==
    \/ \E d \in Docs : SaveBegin(d)
    \/ \E d \in Docs : DiffRead(d)
    \/ \E d \in Docs : SaveUpdate(d)
    \/ \E i \in Ids : DeleteRecord(i)

SpecConc == InitConc /\ [][NextConc]_vars

\* ================================================================== claims
\* The Document the last operation acted on, and its record in the store.
Actor == last.d
ActorRec == find_one(store, doc[last.d].id)

\* ---------------------------------------------------------------------- C1
\* C1: d.delete() on a saved Document whose collection also holds other
\* records removes exactly the record with d's identity: the count drops by
\* one and every other record stays as it was.
C1_DeleteRemovesOnlyOwnRecord ==
    [][ (/\ last'.op = "delete"
         /\ find_one(store, doc[last'.d].id).there
         /\ document_count(store) > 1)
        => /\ store' = [store EXCEPT ![doc[last'.d].id] = NoRecord]
           /\ document_count(store') = document_count(store) - 1 ]_vars

\* ---------------------------------------------------------------------- C3
\* C3: for a Document with an identity, every field that is in memory and is
\* not in the stored record is reported by has_changed() with its in-memory
\* value.
C3_AddedFieldIsReported ==
    \A d \in Docs : \A f \in Fields :
        (/\ doc[d].id # Null
         /\ find_one(store, doc[d].id).there
         /\ doc[d].f[f] # Absent
         /\ find_one(store, doc[d].id).f[f] = Absent)
        => has_changed(doc[d], store)[f] = doc[d].f[f]

\* ---------------------------------------------------------------------- C4
\* C4: save() of a Document that was just mutated in memory and whose
\* identity names no record of the store fails with ValueError.
C4_SaveOfMissingRecordFails ==
    [][ (/\ last.op = "set"
         /\ last'.op = "save"
         /\ last'.d = last.d
         /\ doc[last'.d].id # Null
         /\ ~find_one(store, doc[last'.d].id).there)
        => last'.res = "ValueError" ]_vars

\* ---------------------------------------------------------------------- C5
\* C5: when the Document equals its stored record except for one field f that
\* both have, save() issues an update of exactly {f}: the stored f becomes
\* the in-memory value and every other stored field keeps its value.
C5_PartialUpdate ==
    [][ \A f \in Fields :
        LET d == last'.d
            rec == find_one(store, doc[d].id)
        IN (/\ last'.op = "save"
            /\ doc[d].id # Null
            /\ rec.there
            /\ rec.f[f] # Absent
            /\ doc[d].f[f] # Absent
            /\ doc[d].f[f] # rec.f[f]
            /\ \A g \in Fields \ {f} : doc[d].f[g] = rec.f[g])
           => /\ last'.res = "ok"
              /\ last'.wrote = "update"
              /\ last'.changed = {f}
              /\ store' = [store EXCEPT ![doc[d].id].f[f] = doc[d].f[f]]
              /\ doc' = doc ]_vars

C5_Witness ==
    /\ last.op = "save"
    /\ last.wrote = "update"
    /\ Cardinality(last.changed) = 1
    /\ ActorRec.there
    /\ Keys(ActorRec.f) = Fields
    /\ ActorRec.f = doc[Actor].f

\* ---------------------------------------------------------------------- C6
\* C6: the first save() of a Document without identity inserts exactly one
\* record holding the whole Field Map: the count grows by one, no other
\* record changes, and the Document's identity is that of the new record,
\* which no record of the collection had before.
C6_FirstSaveInserts ==
    [][ (last'.op = "save" /\ doc[last'.d].id = Null)
        => LET d == last'.d IN
           /\ last'.res = "ok"
           /\ last'.wrote = "insert"
           /\ doc'[d].id \in Ids
           /\ ~store[doc'[d].id].there
           /\ store' = [store EXCEPT ![doc'[d].id] = Record(doc[d].f)]
           /\ document_count(store') = document_count(store) + 1
           /\ doc'[d].f = doc[d].f ]_vars

C6_Witness ==
    /\ last.op = "save"
    /\ last.wrote = "insert"
    /\ doc[Actor].id # Null
    /\ ActorRec = Record(doc[Actor].f)
    /\ Keys(doc[Actor].f) # {}
    /\ document_count(store) = 2

\* ---------------------------------------------------------------------- C7
\* C7: a Document without identity and with a non-empty Field Map is not
\* saved: is_saved() is false.
C7_UnsavedIsNotSaved ==
    \A d \in Docs :
        (doc[d].id = Null /\ Keys(doc[d].f) # {}) => ~is_saved(doc[d], store)

\* ---------------------------------------------------------------------- C8
\* C8: right after a save() that returned normally, the identity is not None
\* and is_saved() is true.
C8_SavedAfterSave ==
    (last.op = "save" /\ last.res = "ok")
    => (doc[Actor].id # Null /\ is_saved(doc[Actor], store))

C8_Witness ==
    /\ last.op = "save"
    /\ last.res = "ok"
    /\ last.wrote = "update"
    /\ ActorRec.there
    /\ Keys(doc[Actor].f) = Fields

\* ---------------------------------------------------------------------- C9
\* C9: reload() right after save() on the same Document leaves the Field Map
\* that was saved, field for field, and the identity.
C9_SaveReloadRoundTrip ==
    [][ (/\ last.op = "save"
         /\ last.res = "ok"
         /\ last'.op = "reload"
         /\ last'.d = last.d)
        => doc'[last.d] = doc[last.d] ]_vars

\* --------------------------------------------------------------------- C10
\* C10: a save() that directly follows a save() of the same Document writes
\* nothing: no insert, no update, an empty changed-field set, the store as
\* the first save() left it.
C10_SecondSaveWritesNothing ==
    [][ (last'.op = "save" /\ last'.repeat)
        => /\ last'.wrote = "none"
           /\ last'.changed = {}
           /\ last'.res = "ok"
           /\ store' = store
           /\ doc' = doc ]_vars

C10_Witness ==
    /\ last.op = "save"
    /\ last.repeat
    /\ last.wrote = "none"
    /\ ActorRec.there
    /\ Keys(ActorRec.f) # {}

\* ---------------------------------------------------------------------- C2
BothSaved == run["A"].pc = "done" /\ run["B"].pc = "done" /\ store[1].there

\* C2: A changed only x, B changed only y, both were loaded from the same
\* record and both saved, in any interleaving: the stored record ends with
\* A's x and B's y.
C2_DisjointSavesMerge ==
    BothSaved
    => (store[1].f["x"] = doc["A"].f["x"] /\ store[1].f["y"] = doc["B"].f["y"])

\* C2, amended: the stored record ends with A's x and B's y exactly when
\* neither save() read the other's field after the other's update; otherwise
\* the update that lands last writes its stale value of the other's field
\* back, and only its own change is in the record.
C2_MergeUnlessStaleReadWrittenBack ==
    BothSaved
    => /\ (store[1].f["x"] = doc["A"].f["x"] /\ store[1].f["y"] = doc["B"].f["y"])
          <=> (run["A"].changed["y"] = Absent /\ run["B"].changed["x"] = Absent)
       /\ (store[1].f["x"] = doc["A"].f["x"] \/ store[1].f["y"] = doc["B"].f["y"])
       /\ run["A"].changed["x"] = doc["A"].f["x"]
       /\ run["B"].changed["y"] = doc["B"].f["y"]

C2_Witness ==
    /\ BothSaved
    /\ run["A"].changed["y"] # Absent
    /\ store[1].f["x"] = doc["A"].f["x"]
    /\ store[1].f["y"] # doc["B"].f["y"]

\* --------------------------------------------------------------------- C14
\* C14: after a reload() that returned normally the Field Map in memory is
\* the stored record, field for field, also when memory had a field the
\* record does not have.
C14_ReloadEqualsStored ==
    [][ (last'.op = "reload" /\ last'.res = "ok")
        => doc'[last'.d].f = find_one(store, doc[last'.d].id).f ]_vars

\* --------------------------------------------------------------------- C15
\* C15: reload() of a Document without identity fails with "cannot reload
\* unsaved document", reload() of a Document whose identity names no record
\* fails with "does not exist"; both leave the Field Map and the store alone.
C15_ReloadErrors ==
    [][ last'.op = "reload"
        => LET d == last'.d IN
           /\ doc[d].id = Null
              => (last'.res = CannotReloadUnsaved /\ doc' = doc /\ store' = store)
           /\ (doc[d].id # Null /\ ~find_one(store, doc[d].id).there)
              => (last'.res = DoesNotExist /\ doc' = doc /\ store' = store)
           /\ (doc[d].id # Null /\ find_one(store, doc[d].id).there)
              => last'.res = "ok" ]_vars

\* a reload of an unsaved Document with fields, records being in the store
C15_Witness ==
    /\ last.op = "reload"
    /\ last.res = CannotReloadUnsaved
    /\ Keys(doc[Actor].f) # {}
    /\ document_count(store) > 0

\* --------------------------------------------------------------------- C16
\* C16: d.delete() on a Document without identity fails and removes no
\* record.
C16_DeleteOfUnsavedFails ==
    [][ (last'.op = "delete" /\ doc[last'.d].id = Null)
        => (last'.res # "ok" /\ store' = store) ]_vars

\* --------------------------------------------------------------------- C17
\* C17: d.delete() on a saved Document leaves the instance as it was: every
\* field of the Field Map and the identity.
C17_DeleteKeepsInstance ==
    [][ (last'.op = "delete" /\ doc[last'.d].id # Null)
        => doc' = doc ]_vars

C17_Witness ==
    /\ last.op = "delete"
    /\ doc[Actor].id # Null
    /\ Keys(doc[Actor].f) = Fields
    /\ ~ActorRec.there

\* --------------------------------------------------------------------- C18
\* C18: delete_field(f) returns normally and leaves the Field Map in memory
\* as it was, whether the store call fails or not; when it does not fail the
\* stored record has no field f any more and its other fields are unchanged;
\* when it fails the store is unchanged.
C18_DeleteFieldKeepsMemory ==
    [][ last'.op = "delete_field"
        => LET d == last'.d IN
           /\ last'.res = "ok"
           /\ doc' = doc
           /\ \A f \in last'.changed :
                /\ (last'.wrote = "unset" /\ find_one(store, doc[d].id).there)
                   => store' = [store EXCEPT ![doc[d].id].f[f] = Absent]
                /\ (last'.wrote = "unset" /\ ~find_one(store, doc[d].id).there)
                   => store' = store
                /\ last'.wrote = "failed" => store' = store ]_vars

\* an unset that took a field out of the record which memory still has
C18_Witness ==
    /\ last.op = "delete_field"
    /\ last.wrote = "unset"
    /\ ActorRec.there
    /\ Keys(ActorRec.f) # {}
    /\ \E f \in last.changed : doc[Actor].f[f] # Absent /\ ActorRec.f[f] = Absent

\* --------------------------------------------------------------------- C11
\* C11: with a schema attached, save() of a Document whose Field Map fails
\* validation raises the validation error and writes nothing: the store and
\* the instance are as before, for a new Document and for one with identity.
C11_InvalidSaveWritesNothing ==
    [][ (/\ last'.op = "save"
         /\ schema.on
         /\ validate(schema, doc[last'.d].f) # "ok")
        => /\ last'.res = validate(schema, doc[last'.d].f)
           /\ last'.wrote = "none"
           /\ store' = store
           /\ doc' = doc ]_vars

\* a refused save of a Document with identity whose record differs from it
C11_Witness ==
    /\ last.op = "save"
    /\ last.res \in {"ValueError", "TypeError", "MongoFieldError"}
    /\ doc[Actor].id # Null
    /\ ActorRec.there
    /\ ActorRec.f # doc[Actor].f

\* --------------------------------------------------------------------- C19
\* The three rules of the schema: required fields are not None; every key in
\* memory is declared; every declared field that is not None has the declared
\* type and passes its validator, if it has one.
Conforms(sc, m) ==
    /\ \A f \in Fields :
         (sc.fields[f].declared /\ sc.fields[f].required) => dict_get(m, f) # NoneValue
    /\ \A f \in Keys(m) : sc.fields[f].declared
    /\ \A f \in Fields :
         (sc.fields[f].declared /\ dict_get(m, f) # NoneValue)
         => /\ TypeOf(dict_get(m, f)) = sc.fields[f].type
            /\ sc.fields[f].hasValidator => dict_get(m, f) \in sc.fields[f].accepts

\* C19: validation accepts a Field Map exactly when the three rules hold; a
\* field that is absent and not required never makes it fail.
C19_ValidateIffConforms ==
    last.op = "validate"
    => (last.res = "ok" <=> Conforms(schema, doc[Actor].f))

\* --------------------------------------------------------------------- C12
\* C12: get_by_id never fails: it returns null (for an identity that cannot
\* be parsed, or that names no record) or the Document of the stored record.
C12_GetByIdNeverFails ==
    last.op = "get_by_id" =>
        /\ last.res \in {"None", "ok"}
        /\ last.res = "ok" => /\ ActorRec.there
                              /\ doc[Actor].f = ActorRec.f

\* --------------------------------------------------------------------- C20
\* An identity the store has handed out: identities are handed out in order
Written(i) == i \in Ids /\ i < nextId

\* C20: every Document with a non-null identity has been written to the
\* store under that identity at some time.
C20_IdentityWasWritten ==
    \A d \in Docs : doc[d].id # Null => Written(doc[d].id)

\* --------------------------------------------------------------------- C13
\* C13: insert_many never fails as a whole: whatever goes wrong with one
\* item (a store error, a schema validation failure, a malformed identity),
\* that item is skipped and the operation returns normally.
C13_InsertManyNeverFails ==
    last.op = "insert_many" => last.res = "ok"

\* --------------------------------------------------------------------- C21
\* The left fold of fn over xs from init, defined from the last element back
RECURSIVE FoldLeft(_, _, _)
FoldLeft(fn, init, xs) ==
    IF xs = <<>> THEN init
    ELSE Apply(fn, FoldLeft(fn, init, SubSeq(xs, 1, Len(xs) - 1)), xs[Len(xs)])

\* C21: reduce on an empty list without an initial value fails; with an
\* initial value v (0 included) it returns v on an empty list; on a list
\* with elements it returns the left fold of fn over the elements in order,
\* from the initial value when there is one and else from the first element.
C21_ReduceIsLeftFold ==
    last.op = "reduce" =>
        LET xs == last.self
            init == last.initial
        IN /\ (xs = <<>> /\ init.isNone) => last.out = Raised
           /\ (xs = <<>> /\ ~init.isNone) => last.out = Returned(init.v)
           /\ (xs # <<>> /\ ~init.isNone) =>
                 last.out = Returned(FoldLeft(last.fn, init.v, xs))
           /\ (xs # <<>> /\ init.isNone) =>
                 last.out = Returned(FoldLeft(last.fn, xs[1], Tail(xs)))

\* reduce with initial 0 on the empty list has returned 0
C21_Witness ==
    /\ last.op = "reduce"
    /\ last.self = <<>>
    /\ last.initial = PyInt(0)
    /\ last.out = Returned(0)

\* --------------------------------------------------------------------- C22
\* The positions of xs whose element has key k
PositionsOf(xs, keyfunc, k) == {j \in 1..Len(xs) : keyfunc[xs[j]] = k}
FirstSeen(xs, keyfunc, k) ==
    CHOOSE j \in PositionsOf(xs, keyfunc, k) :
        \A h \in PositionsOf(xs, keyfunc, k) : j <= h

\* C22: group_by returns the keys in the order in which each was first seen,
\* every element in exactly one group, the group of its key, the elements of
\* a group in their order in the list; the list is not modified.
C22_GroupByPartitions ==
    last.op = "group_by" =>
        LET xs == last.arg
            kf == last.keyfunc
            g == last.out
        IN /\ last.self = xs
           /\ \A j, h \in 1..Len(g) : j # h => g[j].key # g[h].key
           /\ {g[j].key : j \in 1..Len(g)} = {kf[xs[j]] : j \in 1..Len(xs)}
           /\ \A j, h \in 1..Len(g) :
                 j < h => FirstSeen(xs, kf, g[j].key) < FirstSeen(xs, kf, g[h].key)
           /\ \A j \in 1..Len(g) :
                 g[j].members = SelectSeq(xs, LAMBDA e : kf[e] = g[j].key)

\* a list with two keys, the second key seen first, one group with two
\* different elements
C22_Witness ==
    /\ last.op = "group_by"
    /\ Len(last.out) = 2
    /\ last.out[1].key = "q"
    /\ \E j \in 1..2 : /\ Len(last.out[j].members) = 2
                       /\ last.out[j].members[1] > last.out[j].members[2]

\* --------------------------------------------------------------------- C24
\* C24: init_db with retries = n >= 0 ends after at most n attempts in one
\* of two ways: an attempt succeeded and Database.client and Database.db are
\* its client and database, or every attempt timed out, a connection error
\* is raised and Database.client and Database.db are as before; it waits
\* between two attempts and not after the last failed one.
C24_InitDbConnectsOrFails ==
    (last.op = "init_db" /\ last.pc = "done") =>
        /\ last.attempts <= last.retries
        /\ last.sleeps = last.attempts - 1
        /\ \/ /\ last.res = "ok"
              /\ last.client = last.local_client /\ last.db = last.local_client
              /\ last.local_client # NoClient
           \/ /\ last.res = "MongoDBConnectionError"
              /\ last.attempts = last.retries
              /\ last.client = last.before /\ last.db = last.before

\* --------------------------------------------------------------------- C23
\* A timestamp or an identity value somewhere in the tree
RECURSIVE HasRaw(_)
HasRaw(value) ==
    \/ value.kind \in {"datetime", "ObjectId"}
    \/ \E i \in 1..Len(value.items) : HasRaw(value.items[i])

\* C23: after the JSON conversion of a tree of nested dicts and lists (a
\* list directly inside a list included) no timestamp and no identity value
\* is left anywhere in the tree.
C23_NoRawValueLeft ==
    last.op = "_convert_to_json" => ~HasRaw(last.out)

\* --------------------------------------------------------------------- C25
\* C25: when a read of the store fails during has_changed() on a Document
\* with an identity, has_changed() returns the empty mapping, whatever
\* changes the reads before it found: is_saved() returns true, save()
\* returns normally and updates nothing, and no error reaches the caller.
C25_ReadFailureIsSwallowed ==
    [][ (last'.op \in {"save", "is_saved"} /\ last'.failed)
        => /\ last'.res = (IF last'.op = "save" THEN "ok" ELSE "True")
           /\ last'.wrote = "none"
           /\ store' = store /\ doc' = doc ]_vars

\* --------------------------------------------------------------------- C26
\* C26: when the insert of the first save() of a new Document fails, the
\* error reaches the caller, no record is added, and the Document is as it
\* was before the call, its identity null, so that a later save() inserts
\* again.
C26_FailedInsertLeavesDocument ==
    [][ (last'.op = "save" /\ doc[last'.d].id = Null /\ last'.res = "PyMongoError")
        => /\ store' = store
           /\ doc' = doc
           /\ doc'[last'.d].id = Null ]_vars

\* --------------------------------------------------------------------- C27
\* C27: a save never makes a deleted record again: once the record of an
\* identity is removed from the collection, no step of a save() of a Document
\* with that identity, however its reads and its update fall around the
\* delete, puts a record under that identity back.
C27_SaveNeverRecreates ==
    [][ \A i \in Ids : (i < nextId /\ ~store[i].there) => ~store'[i].there ]_vars

\* a save() ran its update after the record was deleted
C27_Witness ==
    /\ last.op = "save" /\ last.wrote = "update" /\ last.res = "ValueError"
    /\ ~find_one(store, doc[last.d].id).there

====
